---- MODULE Spec2Model ----
(***************************************************************************)
(* Borderlands 2 save-file editor: borderlands/savefile.py (class BaseApp) *)
(* and borderlands/config.py.                                              *)
(*                                                                         *)
(* These parts of BaseApp are modelled, each with a specification of its   *)
(* own over a shared set of variables:                                     *)
(*   SpecEnvelope  wrap_player_data / unwrap_player_data                   *)
(*   SpecItem      pack/unpack_item_values, wrap/unwrap_item(_info)        *)
(*   SpecEdit      _set_money, _unlock_features, _fix_challenge_overflow   *)
(*   SpecExport    export_items                                            *)
(*   SpecArgs      config.parse_args                                       *)
(*   SpecRun       run, _prepare_output_file                               *)
(*                                                                         *)
(* Byte strings are sequences over 0..255.  Python integers are unbounded, *)
(* TLC's are 32-bit signed; every 32-bit word read from a byte string is   *)
(* therefore kept as its four big-endian digits (a "word"), and no         *)
(* intermediate value of the model reaches 2^31.                           *)
(***************************************************************************)
EXTENDS Integers, Sequences, FiniteSets, TLC

VARIABLES
    \* ---- envelope: wrap_player_data / unwrap_player_data
    endian,      \* self.config.endian: "<" or ">"
    player,      \* the player byte string handed to wrap_player_data
    tamper,      \* what the environment did to the file before it is read
    file,        \* the save file bytes (argument `data` of unwrap_player_data)
    pc,          \* position inside wrap / unwrap_player_data
    data,        \* unwrap_player_data: local `data` after lzo1x_decompress
    version,     \* unwrap_player_data: local `version` (word)
    crc,         \* unwrap_player_data: local `crc` (word)
    size,        \* unwrap_player_data: local `size` after the second unpack (word)
    decoded,     \* unwrap_player_data: local `player` after huffman_decompress
    result,      \* the bytes unwrap_player_data returned (<<>> until it returns)
    error,       \* message of the exception raised ("" when none)
    lzoRan,      \* TRUE once lzo1x_decompress has been called
    \* ---- item codec
    is_weapon,   \* argument of wrap_item
    values,      \* argument of wrap_item: field list, None for an absent field
    key,         \* argument of wrap_item: signed 32-bit key
    packed,      \* bytes returned by pack_item_values
    unpacked,    \* list returned by unpack_item_values(is_weapon, packed)
    raw,         \* bytes returned by wrap_item
    item,        \* tuple returned by unwrap_item(raw)
    info,        \* dict returned by unwrap_item_info(raw)
    rewrapped,   \* bytes returned by wrap_item_info(info)
    ipc,         \* position in the item scenario
    \* ---- edit pass of modify_save
    config,      \* self.config: money, eridium, seraph, torgue, unlock, fix_challenge_overflow
    playerIn,    \* the PlayerDict as read_protobuf returned it
    playerDict,  \* the PlayerDict being edited
    epc,         \* position in the edit pass
    eerror,      \* exception raised by the edit pass ("" when none)
    \* ---- export_items
    stored,        \* container -> the (is_weapon, values, key) the save holds, in order
    xplayer,       \* export_items: player, container -> raw item of each field
    container,     \* export_items: containers of (41, 53, 54) entered so far
    field,         \* export_items: fields of the current content visited so far
    count,         \* export_items: local `count`
    skipped_count, \* export_items: local `skipped_count`
    output,        \* lines printed to `output`
    xpc,           \* position in export_items
    \* ---- parse_args
    args,          \* parse_args: the argument list
    namespace,     \* the Config object: output, force, input_filename, output_filename
    parse_error,   \* message of parser.error ("" when none)
    apc,           \* position in parse_args
    \* ---- run
    outpath,       \* what config.output_filename names on disk: "absent", "file", "dir"
    answer,        \* the line stdin holds for the overwrite prompt
    decodes,       \* whether modify_save and show_save_info accept the input
    changed,       \* whether new_data != save_data
    edited,        \* TRUE once modify_save and show_save_info have returned
    unlinked,      \* TRUE once os.unlink(outfile) was called
    opened,        \* TRUE once open(outfile, mode) was called
    written,       \* TRUE once something was written to the output
    rpc,           \* position in run
    rerror         \* the exception or exit message run ended with ("" when none)

envVars  == <<endian, player, tamper, file, pc, data, version, crc, size, decoded,
              result, error, lzoRan>>
itemVars == <<is_weapon, values, key, packed, unpacked, raw, item, info, rewrapped, ipc>>
editVars == <<config, playerIn, playerDict, epc, eerror>>
exportVars == <<stored, xplayer, container, field, count, skipped_count, output, xpc>>
argVars  == <<args, namespace, parse_error, apc>>
runVars  == <<outpath, answer, decodes, changed, edited, unlinked, opened, written, rpc, rerror>>
vars     == <<envVars, itemVars, editVars, exportVars, argVars, runVars>>

(***************************************************************************)
(* Bounds of the model.                                                    *)
(***************************************************************************)
\* longest player byte string handed to wrap_player_data
MaxPlayerLen == 3
\* most bytes huffman_decompress is asked for before the model gives up
MaxDecode == 8

\* Python's None, kept apart from the non-negative integers of the model
None == -1

(***************************************************************************)
(* Python integer and bytes primitives.                                    *)
(***************************************************************************)
RECURSIVE BitAnd(_, _)
\* a & b for a, b >= 0
BitAnd(a, b) ==
    IF a = 0 \/ b = 0 THEN 0
    ELSE (a % 2) * (b % 2) + 2 * BitAnd(a \div 2, b \div 2)

RECURSIVE BitOr(_, _)
\* a | b for a, b >= 0
BitOr(a, b) ==
    IF a = 0 THEN b
    ELSE IF b = 0 THEN a
    ELSE (IF a % 2 = 1 \/ b % 2 = 1 THEN 1 ELSE 0) + 2 * BitOr(a \div 2, b \div 2)

RECURSIVE BitXor(_, _)
\* a ^ b for a, b >= 0
BitXor(a, b) ==
    IF a = 0 THEN b
    ELSE IF b = 0 THEN a
    ELSE ((a + b) % 2) + 2 * BitXor(a \div 2, b \div 2)

Min(a, b) == IF a < b THEN a ELSE b

Reverse(s) == [i \in 1..Len(s) |-> s[Len(s) + 1 - i]]

\* s[a:b] of Python for 0 <= a, 0 <= b: indices clamp to the length
Slice(s, a, b) == SubSeq(s, a + 1, Min(b, Len(s)))

\* s[a:] of Python
SliceFrom(s, a) == SubSeq(s, a + 1, Len(s))

\* the four big-endian digits of n, 0 <= n < 2^31
Word(n) == <<(n \div 16777216) % 256, (n \div 65536) % 256, (n \div 256) % 256, n % 256>>

\* struct.pack(endian + "I", n)
pack_u32(e, n) == IF e = ">" THEN Word(n) ELSE Reverse(Word(n))

\* struct.unpack(endian + "I", b)[0] as a word
unpack_u32(e, b) == IF e = ">" THEN b ELSE Reverse(b)

\* the value of a word when it is below 65536, else 65536 ("at least 65536")
WordValue(w) == IF w[1] = 0 /\ w[2] = 0 THEN w[3] * 256 + w[4] ELSE 65536

\* the eight bits of a byte string, most significant bit of each byte first
BytesToBits(s) ==
    [k \in 1..(8 * Len(s)) |-> (s[((k - 1) \div 8) + 1] \div 2^(7 - ((k - 1) % 8))) % 2]

BitAt(bits, j) == IF j <= Len(bits) THEN bits[j] ELSE 0

\* WriteBitstream.getvalue: the bits as bytes, the last byte padded with zero bits
BitsToBytes(bits) ==
    [i \in 1..((Len(bits) + 7) \div 8) |->
        BitAt(bits, 8 * i - 7) * 128 + BitAt(bits, 8 * i - 6) * 64
        + BitAt(bits, 8 * i - 5) * 32 + BitAt(bits, 8 * i - 4) * 16
        + BitAt(bits, 8 * i - 3) * 8 + BitAt(bits, 8 * i - 2) * 4
        + BitAt(bits, 8 * i - 1) * 2 + BitAt(bits, 8 * i)]

RECURSIVE SumBytes(_)
SumBytes(s) == IF s = <<>> THEN 0 ELSE s[1] + SumBytes(Tail(s))

(***************************************************************************)
(* Library digests.  hashlib.sha1 and binascii.crc32 are standard-library  *)
(* functions; the model needs only that they are functions of the bytes,   *)
(* so each is a small checksum of the right shape (20 bytes; one word).    *)
(***************************************************************************)
\* hashlib.sha1(d).digest()
sha1(d) == [i \in 1..20 |-> (SumBytes(d) + i * (Len(d) + 1)) % 256]

RECURSIVE CrcFold(_, _)
CrcFold(s, h) == IF s = <<>> THEN h ELSE CrcFold(Tail(s), (h * 33 + s[1] + 1) % 1000003)

\* binascii.crc32(p) & 0xFFFFFFFF
crc32(p) == CrcFold(p, 5381)

(***************************************************************************)
(* LZO1X (borderlands/util/lzo1x.py).  A stored block: the 0xF0 marker the *)
(* caller strips and prepends, the bytes, the end-of-stream token          *)
(* 0x11 0x00 0x00.                                                         *)
(***************************************************************************)
lzo1x_1_compress(x) == <<240>> \o x \o <<17, 0, 0>>

lzo1x_decompress(y) ==
    IF /\ Len(y) >= 4
       /\ y[1] = 240
       /\ SubSeq(y, Len(y) - 2, Len(y)) = <<17, 0, 0>>
    THEN [ok |-> TRUE, out |-> SubSeq(y, 2, Len(y) - 3)]
    ELSE [ok |-> FALSE, out |-> <<>>]

(***************************************************************************)
(* Huffman codec (borderlands/util/huffman.py) over the bitstream.  A tree *)
(* is <<1, byte>> (leaf) or <<0, left, right>>.                            *)
(***************************************************************************)
Freq(d, b) == Cardinality({i \in 1..Len(d) : d[i] = b})

\* insert node m = <<freq, tree>> after every node whose frequency is <= its own
HuffInsert(m, nodes) ==
    LET k == Cardinality({i \in 1..Len(nodes) : nodes[i][1] <= m[1]})
    IN SubSeq(nodes, 1, k) \o <<m>> \o SubSeq(nodes, k + 1, Len(nodes))

RECURSIVE HuffLeaves(_, _)
\* the leaves of the bytes in S, by frequency, ties by byte value
HuffLeaves(d, S) ==
    IF S = {} THEN <<>>
    ELSE LET b == CHOOSE x \in S : \A y \in S :
                      \/ Freq(d, x) < Freq(d, y)
                      \/ (Freq(d, x) = Freq(d, y) /\ x <= y)
         IN <<<<Freq(d, b), <<1, b>>>>>> \o HuffLeaves(d, S \ {b})

RECURSIVE HuffCombine(_)
HuffCombine(nodes) ==
    IF Len(nodes) = 1 THEN nodes[1][2]
    ELSE HuffCombine(HuffInsert(
             <<nodes[1][1] + nodes[2][1], <<0, nodes[1][2], nodes[2][2]>>>>,
             SubSeq(nodes, 3, Len(nodes))))

\* make_huffman_tree(data), data not empty
make_huffman_tree(d) == HuffCombine(HuffLeaves(d, {d[i] : i \in 1..Len(d)}))

RECURSIVE write_huffman_tree(_)
\* pre-order: 1 and the byte for a leaf, 0 for an internal node
write_huffman_tree(t) ==
    IF t[1] = 1 THEN <<1>> \o BytesToBits(<<t[2]>>)
    ELSE <<0>> \o write_huffman_tree(t[2]) \o write_huffman_tree(t[3])

RECURSIVE TreeHas(_, _)
TreeHas(t, b) == IF t[1] = 1 THEN t[2] = b ELSE TreeHas(t[2], b) \/ TreeHas(t[3], b)

RECURSIVE HuffCode(_, _)
\* invert_tree(tree)[b]: the path to b's leaf, 0 = left
HuffCode(t, b) ==
    IF t[1] = 1 THEN <<>>
    ELSE IF TreeHas(t[2], b) THEN <<0>> \o HuffCode(t[2], b)
    ELSE <<1>> \o HuffCode(t[3], b)

RECURSIVE huffman_compress(_, _)
huffman_compress(t, d) ==
    IF d = <<>> THEN <<>> ELSE HuffCode(t, d[1]) \o huffman_compress(t, Tail(d))

RECURSIVE read_huffman_tree(_, _)
\* parse a tree from bits at position p; pos is the first unread bit
read_huffman_tree(bits, p) ==
    IF p > Len(bits) THEN [ok |-> FALSE, tree |-> <<>>, pos |-> p]
    ELSE IF bits[p] = 1
    THEN IF p + 8 > Len(bits) THEN [ok |-> FALSE, tree |-> <<>>, pos |-> p]
         ELSE [ok |-> TRUE,
               tree |-> <<1, BitsToBytes(SubSeq(bits, p + 1, p + 8))[1]>>,
               pos |-> p + 9]
    ELSE LET l == read_huffman_tree(bits, p + 1)
         IN IF ~l.ok THEN l
            ELSE LET r == read_huffman_tree(bits, l.pos)
                 IN IF ~r.ok THEN r
                    ELSE [ok |-> TRUE, tree |-> <<0, l.tree, r.tree>>, pos |-> r.pos]

RECURSIVE HuffWalk(_, _, _)
\* from node t, one bit per edge, to a leaf
HuffWalk(t, bits, p) ==
    IF t[1] = 1 THEN [ok |-> TRUE, byte |-> t[2], pos |-> p]
    ELSE IF p > Len(bits) THEN [ok |-> FALSE, byte |-> 0, pos |-> p]
    ELSE HuffWalk(t[2 + bits[p]], bits, p + 1)

RECURSIVE HuffEmit(_, _, _, _)
HuffEmit(t, bits, p, n) ==
    IF n = 0 THEN [ok |-> TRUE, out |-> <<>>]
    ELSE LET w == HuffWalk(t, bits, p)
         IN IF ~w.ok THEN [ok |-> FALSE, out |-> <<>>]
            ELSE LET rest == HuffEmit(t, bits, w.pos, n - 1)
                 IN IF ~rest.ok THEN rest
                    ELSE [ok |-> TRUE, out |-> <<w.byte>> \o rest.out]

\* huffman_decompress(tree, bitstream, size): exactly n bytes, or failure when
\* the stream ends first (n beyond MaxDecode is outside the model and fails)
huffman_decompress(t, bits, p, n) ==
    IF n > MaxDecode THEN [ok |-> FALSE, out |-> <<>>] ELSE HuffEmit(t, bits, p, n)

(***************************************************************************)
(* Envelope: BaseApp.wrap_player_data and BaseApp.unwrap_player_data.      *)
(***************************************************************************)
WSG == <<87, 83, 71>>

\* the two accepted values of the version word, read big-endian
Version2 == Word(2)
Version2Swapped == Word(33554432)

\* wrap_player_data with the version word always written big-endian
wrap_player_data_FixedVersion(p, e) ==
    LET tree == make_huffman_tree(p)
        d == BitsToBytes(write_huffman_tree(tree) \o huffman_compress(tree, p))
                 \o <<0, 0, 0, 0>>
        header == pack_u32(">", Len(d) + 15) \o WSG
                      \o pack_u32(">", 2) \o pack_u32(e, crc32(p)) \o pack_u32(e, Len(p))
        z == Tail(lzo1x_1_compress(header \o d))
    IN sha1(z) \o z

\* BaseApp.wrap_player_data(player) under self.config.endian = e
wrap_player_data(p, e) ==
    LET tree == make_huffman_tree(p)
        d == BitsToBytes(write_huffman_tree(tree) \o huffman_compress(tree, p))
                 \o <<0, 0, 0, 0>>
        header == pack_u32(">", Len(d) + 15) \o WSG
                      \o pack_u32(e, 2) \o pack_u32(e, crc32(p)) \o pack_u32(e, Len(p))
        z == Tail(lzo1x_1_compress(header \o d))
    IN sha1(z) \o z

\* unwrap_player_data line 224: the SHA-1 prefix matches
Sha1Matches(f) == Slice(f, 0, 20) = sha1(SliceFrom(f, 20))

\* unwrap_player_data line 227
Decompress(f) == lzo1x_decompress(<<240>> \o SliceFrom(f, 20))

\* unwrap_player_data lines 228-235 with the two unpack calls exchanged
ParseHeader_Swapped(d) ==
    IF Len(d) < 19 THEN [err |-> "struct.error", version |-> <<>>, crc |-> <<>>, size |-> <<>>]
    ELSE LET v == unpack_u32(">", SubSeq(d, 8, 11))
         IN IF v # Version2 /\ v # Version2Swapped
            THEN [err |-> "Unknown save version", version |-> v, crc |-> <<>>, size |-> <<>>]
            ELSE LET e == IF v = Version2 THEN "<" ELSE ">"
                 IN [err |-> "", version |-> v,
                     crc |-> unpack_u32(e, SubSeq(d, 12, 15)),
                     size |-> unpack_u32(e, SubSeq(d, 16, 19))]

\* unwrap_player_data lines 228-235: version read big-endian and checked; crc
\* and size unpacked ">II" when version == 2, "<II" otherwise.  The magic
\* (`wsg`) is unpacked and never looked at.
ParseHeader(d) ==
    IF Len(d) < 19 THEN [err |-> "struct.error", version |-> <<>>, crc |-> <<>>, size |-> <<>>]
    ELSE LET v == unpack_u32(">", SubSeq(d, 8, 11))
         IN IF v # Version2 /\ v # Version2Swapped
            THEN [err |-> "Unknown save version", version |-> v, crc |-> <<>>, size |-> <<>>]
            ELSE LET e == IF v = Version2 THEN ">" ELSE "<"
                 IN [err |-> "", version |-> v,
                     crc |-> unpack_u32(e, SubSeq(d, 12, 15)),
                     size |-> unpack_u32(e, SubSeq(d, 16, 19))]

\* unwrap_player_data lines 237-239: tree, then `size` bytes
HuffmanDecode(d, sz) ==
    LET bits == BytesToBits(SliceFrom(d, 19))
        t == read_huffman_tree(bits, 1)
    IN IF ~t.ok THEN [ok |-> FALSE, out |-> <<>>]
       ELSE huffman_decompress(t.tree, bits, t.pos, WordValue(sz))

\* the CRC comparison left out
CrcMatches_Skipped(p, c) == TRUE

\* unwrap_player_data line 241
CrcMatches(p, c) == Word(crc32(p)) = c

(***************************************************************************)
(* Player byte strings handed to wrap_player_data, and what can happen to  *)
(* a file between its writing and its reading.                             *)
(***************************************************************************)
PlayerBytes == {0, 1, 200}

Players == UNION {[1..n -> PlayerBytes] : n \in 1..MaxPlayerLen}

TamperBodies == {"none", "magic", "version", "crc", "size", "truncate"}

NoTamper == [sha |-> FALSE, body |-> "none"]

\* the file f written under endianness e, its content changed as b says and
\* sealed again (LZO framing and SHA-1 recomputed), then, with s, one bit of
\* the SHA-1 prefix flipped
TamperFile(f, e, s, b) ==
    LET c == Decompress(f).out
        lsb == IF e = ">" THEN 19 ELSE 16
        c2 == CASE b = "magic"   -> [c EXCEPT ![5] = 88, ![6] = 89, ![7] = 90]
                [] b = "version" -> [c EXCEPT ![8] = 0, ![9] = 0, ![10] = 0, ![11] = 3]
                [] b = "crc"     -> [c EXCEPT ![12] = BitXor(@, 1)]
                [] b = "size"    -> [c EXCEPT ![lsb] = @ + 1]
                [] OTHER         -> c
        z0 == Tail(lzo1x_1_compress(c2))
        z == IF b = "truncate" THEN SubSeq(z0, 1, Len(z0) - 1) ELSE z0
        g == sha1(z) \o z
    IN IF s THEN [g EXCEPT ![1] = BitXor(@, 1)] ELSE g

\* BaseApp.wrap_player_data
WrapPlayerData ==
    /\ pc = "wrap"
    /\ file' = wrap_player_data(player, endian)
    /\ pc' = "written"
    /\ UNCHANGED <<endian, player, tamper, data, version, crc, size, decoded,
                   result, error, lzoRan>>
    /\ UNCHANGED <<itemVars, editVars, exportVars, argVars, runVars>>

\* the environment: the file is stored, possibly damaged, and handed back
Tamper ==
    /\ pc = "written"
    /\ \E s \in BOOLEAN, b \in TamperBodies :
          /\ tamper' = [sha |-> s, body |-> b]
          /\ file' = TamperFile(file, endian, s, b)
    /\ pc' = "sha"
    /\ UNCHANGED <<endian, player, data, version, crc, size, decoded, result,
                   error, lzoRan>>
    /\ UNCHANGED <<itemVars, editVars, exportVars, argVars, runVars>>

\* unwrap_player_data lines 224-225
UnwrapCheckSha ==
    /\ pc = "sha"
    /\ IF Sha1Matches(file)
       THEN pc' = "lzo" /\ error' = error
       ELSE pc' = "failed" /\ error' = "Invalid save file"
    /\ UNCHANGED <<endian, player, tamper, file, data, version, crc, size,
                   decoded, result, lzoRan>>
    /\ UNCHANGED <<itemVars, editVars, exportVars, argVars, runVars>>

\* unwrap_player_data line 227
UnwrapDecompress ==
    /\ pc = "lzo"
    /\ lzoRan' = TRUE
    /\ LET r == Decompress(file)
       IN IF r.ok
          THEN data' = r.out /\ pc' = "header" /\ error' = error
          ELSE data' = data /\ pc' = "failed" /\ error' = "LZO stream error"
    /\ UNCHANGED <<endian, player, tamper, file, version, crc, size, decoded, result>>
    /\ UNCHANGED <<itemVars, editVars, exportVars, argVars, runVars>>

\* unwrap_player_data lines 228-235
UnwrapParseHeader ==
    /\ pc = "header"
    /\ LET h == ParseHeader(data)
       IN /\ version' = h.version
          /\ crc' = h.crc
          /\ size' = h.size
          /\ IF h.err = ""
             THEN pc' = "huffman" /\ error' = error
             ELSE pc' = "failed" /\ error' = h.err
    /\ UNCHANGED <<endian, player, tamper, file, data, decoded, result, lzoRan>>
    /\ UNCHANGED <<itemVars, editVars, exportVars, argVars, runVars>>

\* unwrap_player_data lines 237-239
UnwrapHuffman ==
    /\ pc = "huffman"
    /\ LET r == HuffmanDecode(data, size)
       IN IF r.ok
          THEN decoded' = r.out /\ pc' = "crc" /\ error' = error
          ELSE decoded' = decoded /\ pc' = "failed" /\ error' = "Huffman stream error"
    /\ UNCHANGED <<endian, player, tamper, file, data, version, crc, size, result, lzoRan>>
    /\ UNCHANGED <<itemVars, editVars, exportVars, argVars, runVars>>

\* unwrap_player_data lines 241-244
UnwrapCheckCrc ==
    /\ pc = "crc"
    /\ IF CrcMatches(decoded, crc)
       THEN result' = decoded /\ pc' = "done" /\ error' = error
       ELSE result' = result /\ pc' = "failed" /\ error' = "CRC check failed"
    /\ UNCHANGED <<endian, player, tamper, file, data, version, crc, size, decoded, lzoRan>>
    /\ UNCHANGED <<itemVars, editVars, exportVars, argVars, runVars>>

NextEnvelope ==
    \/ WrapPlayerData
    \/ Tamper
    \/ UnwrapCheckSha
    \/ UnwrapDecompress
    \/ UnwrapParseHeader
    \/ UnwrapHuffman
    \/ UnwrapCheckCrc

\* a player byte string and an endianness; the item codec and the edit pass idle
InitEnvelope ==
    /\ endian \in {"<", ">"}
    /\ player \in Players
    /\ tamper = NoTamper
    /\ file = <<>>
    /\ pc = "wrap"
    /\ data = <<>>
    /\ version = <<>>
    /\ crc = <<>>
    /\ size = <<>>
    /\ decoded = <<>>
    /\ result = <<>>
    /\ error = ""
    /\ lzoRan = FALSE
    /\ is_weapon = 0
    /\ values = <<>>
    /\ key = 0
    /\ packed = <<>>
    /\ unpacked = <<>>
    /\ raw = <<>>
    /\ item = <<>>
    /\ info = <<>>
    /\ rewrapped = <<>>
    /\ ipc = "off"
    /\ config = <<>>
    /\ playerIn = <<>>
    /\ playerDict = <<>>
    /\ epc = "off"
    /\ eerror = ""
    /\ stored = <<>>
    /\ xplayer = <<>>
    /\ container = 0
    /\ field = 0
    /\ count = 0
    /\ skipped_count = 0
    /\ output = <<>>
    /\ xpc = "off"
    /\ args = <<>>
    /\ namespace = <<>>
    /\ parse_error = ""
    /\ apc = "off"
    /\ outpath = "absent"
    /\ answer = ""
    /\ decodes = FALSE
    /\ changed = FALSE
    /\ edited = FALSE
    /\ unlinked = FALSE
    /\ opened = FALSE
    /\ written = FALSE
    /\ rpc = "off"
    /\ rerror = ""

SpecEnvelope == InitEnvelope /\ [][NextEnvelope]_vars

(***************************************************************************)
(* Properties of the envelope.                                             *)
(***************************************************************************)
\* the decompressed content of the file being read
InContent == Decompress(file).out

\* the header parsed, or the parse has failed on the version
HeaderParsed == crc # <<>>

\* C1: envelope round trip.  A file written by wrap_player_data under either
\* endianness and handed back untouched is never rejected by
\* unwrap_player_data; the crc and size words it reads are crc32(player) and
\* len(player); and the bytes it returns are exactly player.
C1_EnvelopeRoundTrip ==
    (pc \notin {"wrap", "written"} /\ tamper = NoTamper) =>
        /\ pc # "failed"
        /\ HeaderParsed => (crc = Word(crc32(player)) /\ size = Word(Len(player)))
        /\ pc = "done" => result = player

C1_Witness ==
    /\ pc = "done"
    /\ tamper = NoTamper
    /\ endian = ">"
    /\ Len(player) >= 2
    /\ result = player

\* C2: a file is accepted only if the magic of its decompressed header is "WSG".
C2_MagicRequired == pc = "done" => SubSeq(InContent, 5, 7) = WSG

\* C3 as stated: version 2 selects little-endian, 0x02000000 big-endian.
C3_AsStated ==
    HeaderParsed =>
        /\ version = Version2 =>
              /\ crc = Reverse(SubSeq(data, 12, 15))
              /\ size = Reverse(SubSeq(data, 16, 19))
        /\ version = Version2Swapped =>
              /\ crc = SubSeq(data, 12, 15)
              /\ size = SubSeq(data, 16, 19)

\* C3 (amended): once the header is parsed, the version word read big-endian
\* is 2 or 0x02000000; when it is 2 the crc and inner_size words are the
\* big-endian reading of header bytes 11..14 and 15..18, and when it is
\* 0x02000000 they are the little-endian reading.
C3_EndianByVersion ==
    HeaderParsed =>
        /\ version \in {Version2, Version2Swapped}
        /\ version = Version2 =>
              /\ crc = SubSeq(data, 12, 15)
              /\ size = SubSeq(data, 16, 19)
        /\ version = Version2Swapped =>
              /\ crc = Reverse(SubSeq(data, 12, 15))
              /\ size = Reverse(SubSeq(data, 16, 19))

C3_Witness ==
    /\ pc = "done"
    /\ version = Version2
    /\ crc = SubSeq(data, 12, 15)
    /\ crc # Reverse(crc)
    /\ size # Reverse(size)

\* C4: integrity failures are fatal and ordered.  A file whose SHA-1 prefix
\* does not match fails with "Invalid save file" and lzo1x_decompress is never
\* called; with a matching SHA-1 and a version word other than 2 and
\* 0x02000000 it fails with "Unknown save version"; once the player is
\* Huffman-decoded, unwrap_player_data returns only if the crc word equals
\* crc32 of the decoded bytes and otherwise fails with "CRC check failed".
\* A failed call returns no player bytes.
C4_FatalOrdered ==
    LET shaDone == pc \notin {"off", "wrap", "written", "sha"}
        headerDone == pc \notin {"off", "wrap", "written", "sha", "lzo", "header"}
        c == Decompress(file)
        v == SubSeq(c.out, 8, 11)
    IN /\ (shaDone /\ ~Sha1Matches(file)) =>
              (pc = "failed" /\ error = "Invalid save file" /\ ~lzoRan)
       /\ lzoRan => Sha1Matches(file)
       /\ (headerDone /\ Sha1Matches(file) /\ c.ok /\ Len(c.out) >= 19
             /\ v \notin {Version2, Version2Swapped}) =>
              (pc = "failed" /\ error = "Unknown save version" /\ decoded = <<>>)
       /\ (pc = "done") => (crc = Word(crc32(decoded)) /\ result = decoded)
       /\ (pc = "failed" /\ decoded # <<>>) =>
              (error = "CRC check failed" /\ crc # Word(crc32(decoded)))
       /\ (pc \in {"done", "failed"} /\ decoded # <<>> /\ crc # Word(crc32(decoded))) =>
              (pc = "failed" /\ error = "CRC check failed")
       /\ pc = "failed" => result = <<>>

C4_Witness ==
    /\ pc = "failed"
    /\ error = "CRC check failed"
    /\ tamper = [sha |-> FALSE, body |-> "crc"]
    /\ decoded = player
    /\ lzoRan

(***************************************************************************)
(* Item codec: BaseApp.pack_item_values, unpack_item_values, wrap_item,    *)
(* unwrap_item, unwrap_item_info, wrap_item_info.                          *)
(***************************************************************************)
\* BaseApp.item_sizes[is_weapon] is item_sizes[is_weapon + 1]
item_sizes == <<
    <<8, 17, 20, 11, 7, 7, 16, 16, 16, 16, 16, 16, 16, 16, 16, 16, 16>>,
    <<8, 13, 20, 11, 7, 7, 17, 17, 17, 17, 17, 17, 17, 17, 17, 17, 17>> >>

\* BaseApp.item_header_sizes[is_weapon]: bits of type, balance, manufacturer
item_header_sizes == << <<8, 10, 7>>, <<6, 10, 7>> >>

\* self.item_struct_version ("B2 version is 7")
item_struct_version == 7

\* pack_item_values lines 120-123: or value into item_bytes from byte j on
RECURSIVE OrInto(_, _, _)
OrInto(item_bytes, j, value) ==
    IF value = 0 THEN item_bytes
    ELSE OrInto([item_bytes EXCEPT ![j + 1] = BitOr(@, value % 256)], j + 1, value \div 256)

\* pack_item_values lines 125-128
PackFinish(item_bytes, i) ==
    LET padded == IF i % 8 # 0
                  THEN [item_bytes EXCEPT ![(i \div 8) + 1] =
                            BitOr(@, (255 * 2^(i % 8)) % 256)]
                  ELSE item_bytes
    IN SubSeq(padded, 1, (i + 7) \div 8)

\* pack_item_values lines 115-124: the loop from field k on
RECURSIVE PackLoop(_, _, _, _, _)
PackLoop(vals, sizes, k, i, item_bytes) ==
    IF k > Len(vals) \/ k > Len(sizes) THEN PackFinish(item_bytes, i)
    ELSE IF vals[k] = None THEN PackFinish(item_bytes, i)
    ELSE PackLoop(vals, sizes, k + 1, i + sizes[k],
                  OrInto(item_bytes, i \div 8, vals[k] * 2^(i % 8)))

\* BaseApp.pack_item_values
pack_item_values(w, vals) ==
    PackLoop(vals, item_sizes[w + 1], 1, 0, [n \in 1..32 |-> 0])

\* unpack_item_values lines 140-142 followed by the shift of line 143:
\* (sum of d[k] << 8 * (k - lo) for k = hi down to lo) >> s, the shift taken
\* inside the sum so that no intermediate value reaches 2^31.  d is the
\* prefixed data, Python's d[k] is d[k + 1].
RECURSIVE ShiftedBytes(_, _, _, _, _)
ShiftedBytes(d, lo, hi, k, s) ==
    IF k > hi THEN 0
    ELSE (IF k = lo THEN d[k + 1] \div 2^s ELSE d[k + 1] * 2^(8 * (k - lo) - s))
         + ShiftedBytes(d, lo, hi, k + 1, s)

\* unpack_item_values line 143: x & ~(0xFF << size)
ClearAbove(x, sz) == x - BitAnd(x, 255 * 2^sz)

\* unpack_item_values lines 135-144 written with `break` where the code has
\* `continue`: the first absent field ends the loop
RECURSIVE UnpackLoop_Break(_, _, _, _)
UnpackLoop_Break(sizes, k, i, d) ==
    IF k > Len(sizes) THEN <<>>
    ELSE LET j == i + sizes[k]
         IN IF j > Len(d) * 8
            THEN [n \in 1..(Len(sizes) - k + 1) |-> None]
            ELSE <<ClearAbove(ShiftedBytes(d, i \div 8, Min(j \div 8, Len(d) - 1),
                                           i \div 8, i % 8), sizes[k])>>
                 \o UnpackLoop_Break(sizes, k + 1, j, d)

\* unpack_item_values lines 135-144: the loop from field k on.  A field that
\* does not fit is None and i stays where it is (`continue`).
RECURSIVE UnpackLoop(_, _, _, _)
UnpackLoop(sizes, k, i, d) ==
    IF k > Len(sizes) THEN <<>>
    ELSE LET j == i + sizes[k]
         IN IF j > Len(d) * 8
            THEN <<None>> \o UnpackLoop(sizes, k + 1, i, d)
            ELSE <<ClearAbove(ShiftedBytes(d, i \div 8, Min(j \div 8, Len(d) - 1),
                                           i \div 8, i % 8), sizes[k])>>
                 \o UnpackLoop(sizes, k + 1, j, d)

\* BaseApp.unpack_item_values
unpack_item_values(w, d) == UnpackLoop(item_sizes[w + 1], 1, 8, <<32>> \o d)

\* struct.pack(">i", key): two's complement, big-endian
pack_i32(k) == <<(k \div 16777216) % 256, (k \div 65536) % 256, (k \div 256) % 256, k % 256>>

\* struct.unpack(">i", b)[0]
unpack_i32(b) ==
    (IF b[1] >= 128 THEN b[1] - 256 ELSE b[1]) * 16777216 + b[2] * 65536 + b[3] * 256 + b[4]

\* util/common.py xor_data(data, key): each byte xor the low byte of key
xor_data(d, k) == [n \in 1..Len(d) |-> BitXor(d[n], k % 256)]

\* util/common.py rotate_data_right(data, steps): the whole string, as bits
\* (most significant bit of each byte first), rotated right by steps bits:
\* whole bytes move by steps >> 3, and each byte then takes the low steps & 7
\* bits of the byte before it as its high bits
rotate_data_right(d, steps) ==
    LET L == Len(d)
        q == steps \div 8
        r == steps % 8
        at(n) == d[((n - 1) % L) + 1]
    IN [n \in 1..L |->
           (at(n - q - 1) % 2^r) * 2^(8 - r) + at(n - q) \div 2^r]

\* the inverse rotation used by create_body
rotate_data_left(d, steps) ==
    LET L == Len(d)
        q == steps \div 8
        r == steps % 8
        at(n) == d[((n - 1) % L) + 1]
    IN [n \in 1..L |->
           (at(n + q) % 2^(8 - r)) * 2^r + at(n + q + 1) \div 2^(8 - r)]

RECURSIVE XorFold(_, _, _)
\* xor of the bytes of d at positions n, n + 2, ...
XorFold(d, n, acc) == IF n > Len(d) THEN acc ELSE XorFold(d, n + 2, BitXor(acc, d[n]))

\* util/common.py create_body(item, header, key): the two checksum bytes (the
\* 16-bit xor fold of the packed item) and the item, rotated left by key & 31
\* bits and xored with key >> 5
create_body(it, header, k) ==
    xor_data(rotate_data_left(<<XorFold(it, 1, 0), XorFold(it, 2, 0)>> \o it, k % 32),
             k \div 32)

\* BaseApp.wrap_item
wrap_item(w, vals, k) ==
    LET it == pack_item_values(w, vals)
        header == <<BitOr(w * 128, item_struct_version)>> \o pack_i32(k)
    IN header \o create_body(it, header, k)

\* BaseApp.unwrap_item
unwrap_item(d) ==
    LET version_type == d[1]
        k == unpack_i32(SubSeq(d, 2, 5))
        w == version_type \div 128
        r == rotate_data_right(xor_data(SliceFrom(d, 5), k \div 32), k % 32)
    IN [is_weapon |-> w, values |-> unpack_item_values(w, SliceFrom(r, 2)), key |-> k]

\* a None entry of a list of {"lib", "asset"} dicts
NoPart == <<>>

\* unwrap_item_info lines 186-188 with the shift of lib forgotten in the mask
SplitLibAsset_NoShift(x, bits) ==
    LET lib == x \div 2^bits
    IN <<lib, x - BitAnd(x, lib)>>

\* unwrap_item_info lines 186-188 and 195-197: lib = x >> bits,
\* asset = x & ~(lib << bits), as <<lib, asset>>
SplitLibAsset(x, bits) ==
    LET lib == x \div 2^bits
    IN <<lib, x - BitAnd(x, lib * 2^bits)>>

\* BaseApp.unwrap_item_info; exit is TRUE when it ends in sys.exit.  The
\* '_base64' entry is not read by wrap_item_info and is left out.
unwrap_item_info(value) ==
    LET u == unwrap_item(value)
        it == u.values
        hs == item_header_sizes[u.is_weapon + 1]
        bits == 10 + u.is_weapon
    IN [exit |-> \E i \in 1..3 : it[1 + i] = None,
        is_weapon |-> u.is_weapon,
        key |-> u.key,
        set |-> it[1],
        level |-> <<it[5], it[6]>>,
        header |-> [i \in 1..3 |->
                       IF it[1 + i] = None THEN NoPart ELSE SplitLibAsset(it[1 + i], hs[i])],
        parts |-> [n \in 1..(Len(it) - 6) |->
                       IF it[6 + n] = None THEN NoPart ELSE SplitLibAsset(it[6 + n], bits)]]

\* wrap_item_info lines 202-212 with the part width fixed at 10
InfoValues_Bits10(value) ==
    <<value.set>>
    \o [i \in 1..3 |-> BitOr(value.header[i][1] * 2^(item_header_sizes[value.is_weapon + 1][i]),
                             value.header[i][2])]
    \o value.level
    \o [n \in 1..Len(value.parts) |->
           IF value.parts[n] = NoPart THEN None
           ELSE BitOr(value.parts[n][1] * 2^10, value.parts[n][2])]

\* wrap_item_info lines 202-212: the field list rebuilt from the dict
InfoValues(value) ==
    <<value.set>>
    \o [i \in 1..3 |-> BitOr(value.header[i][1] * 2^(item_header_sizes[value.is_weapon + 1][i]),
                             value.header[i][2])]
    \o value.level
    \o [n \in 1..Len(value.parts) |->
           IF value.parts[n] = NoPart THEN None
           ELSE BitOr(value.parts[n][1] * 2^(10 + value.is_weapon), value.parts[n][2])]

\* BaseApp.wrap_item_info
wrap_item_info(value) == wrap_item(value.is_weapon, InfoValues(value), value.key)

(***************************************************************************)
(* Items handed to the codec: n present fields, each within its width,     *)
(* then nothing or None up to 17 entries; and the keys they are wrapped    *)
(* under.                                                                  *)
(***************************************************************************)
FieldPatterns == {"zero", "one", "max", "high"}

FieldValue(p, k, sz) ==
    CASE p = "zero" -> 0
      [] p = "one"  -> 1
      [] p = "max"  -> 2^sz - 1
      [] OTHER      -> 2^(sz - 1) + k

Pad17(vals) == [k \in 1..17 |-> IF k <= Len(vals) THEN vals[k] ELSE None]

ItemValues(w, n, p, padded) ==
    LET present == [k \in 1..n |-> FieldValue(p, k, item_sizes[w + 1][k])]
    IN IF padded THEN Pad17(present) ELSE present

ItemKeys == {0, 45, 305419896, -1, -2147483647 - 1}

\* an item and a key; the envelope and the edit pass idle
InitItem ==
    /\ is_weapon \in {0, 1}
    /\ key \in ItemKeys
    /\ \E n \in 0..17, p \in FieldPatterns, padded \in BOOLEAN :
          values = ItemValues(is_weapon, n, p, padded)
    /\ packed = <<>>
    /\ unpacked = <<>>
    /\ raw = <<>>
    /\ item = <<>>
    /\ info = <<>>
    /\ rewrapped = <<>>
    /\ ipc = "pack"
    /\ endian = "<"
    /\ player = <<>>
    /\ tamper = NoTamper
    /\ file = <<>>
    /\ pc = "off"
    /\ data = <<>>
    /\ version = <<>>
    /\ crc = <<>>
    /\ size = <<>>
    /\ decoded = <<>>
    /\ result = <<>>
    /\ error = ""
    /\ lzoRan = FALSE
    /\ config = <<>>
    /\ playerIn = <<>>
    /\ playerDict = <<>>
    /\ epc = "off"
    /\ eerror = ""
    /\ stored = <<>>
    /\ xplayer = <<>>
    /\ container = 0
    /\ field = 0
    /\ count = 0
    /\ skipped_count = 0
    /\ output = <<>>
    /\ xpc = "off"
    /\ args = <<>>
    /\ namespace = <<>>
    /\ parse_error = ""
    /\ apc = "off"
    /\ outpath = "absent"
    /\ answer = ""
    /\ decodes = FALSE
    /\ changed = FALSE
    /\ edited = FALSE
    /\ unlinked = FALSE
    /\ opened = FALSE
    /\ written = FALSE
    /\ rpc = "off"
    /\ rerror = ""

\* BaseApp.pack_item_values
PackItemValues ==
    /\ ipc = "pack"
    /\ packed' = pack_item_values(is_weapon, values)
    /\ ipc' = "unpack"
    /\ UNCHANGED <<is_weapon, values, key, unpacked, raw, item, info, rewrapped>>
    /\ UNCHANGED <<envVars, editVars, exportVars, argVars, runVars>>

\* BaseApp.unpack_item_values
UnpackItemValues ==
    /\ ipc = "unpack"
    /\ unpacked' = unpack_item_values(is_weapon, packed)
    /\ ipc' = "wrap"
    /\ UNCHANGED <<is_weapon, values, key, packed, raw, item, info, rewrapped>>
    /\ UNCHANGED <<envVars, editVars, exportVars, argVars, runVars>>

\* BaseApp.wrap_item
WrapItem ==
    /\ ipc = "wrap"
    /\ raw' = wrap_item(is_weapon, values, key)
    /\ ipc' = "unwrap"
    /\ UNCHANGED <<is_weapon, values, key, packed, unpacked, item, info, rewrapped>>
    /\ UNCHANGED <<envVars, editVars, exportVars, argVars, runVars>>

\* BaseApp.unwrap_item
UnwrapItem ==
    /\ ipc = "unwrap"
    /\ item' = unwrap_item(raw)
    /\ ipc' = "unwrap_info"
    /\ UNCHANGED <<is_weapon, values, key, packed, unpacked, raw, info, rewrapped>>
    /\ UNCHANGED <<envVars, editVars, exportVars, argVars, runVars>>

\* BaseApp.unwrap_item_info; sys.exit when a header field is None
UnwrapItemInfo ==
    /\ ipc = "unwrap_info"
    /\ LET d == unwrap_item_info(raw)
       IN IF d.exit
          THEN info' = info /\ ipc' = "exit"
          ELSE info' = d /\ ipc' = "wrap_info"
    /\ UNCHANGED <<is_weapon, values, key, packed, unpacked, raw, item, rewrapped>>
    /\ UNCHANGED <<envVars, editVars, exportVars, argVars, runVars>>

\* BaseApp.wrap_item_info
WrapItemInfo ==
    /\ ipc = "wrap_info"
    /\ rewrapped' = wrap_item_info(info)
    /\ ipc' = "done"
    /\ UNCHANGED <<is_weapon, values, key, packed, unpacked, raw, item, info>>
    /\ UNCHANGED <<envVars, editVars, exportVars, argVars, runVars>>

NextItem ==
    \/ PackItemValues
    \/ UnpackItemValues
    \/ WrapItem
    \/ UnwrapItem
    \/ UnwrapItemInfo
    \/ WrapItemInfo

SpecItem == InitItem /\ [][NextItem]_vars

(***************************************************************************)
(* Properties of the item codec.                                           *)
(***************************************************************************)
\* the number of leading entries of a field list that are not None
RECURSIVE PresentCount(_)
PresentCount(vals) ==
    IF vals = <<>> THEN 0
    ELSE IF vals[1] = None THEN 0
    ELSE 1 + PresentCount(Tail(vals))

\* C5: item round trip under any key: unwrap_item(wrap_item(is_weapon,
\* fields, key)) is (is_weapon, fields extended with None to 17 entries, key).
C5_ItemRoundTrip ==
    ipc \in {"unwrap_info", "wrap_info", "exit", "done"} =>
        item = [is_weapon |-> is_weapon, values |-> Pad17(values), key |-> key]

\* C6: the list unpack_item_values returns has 17 entries, and once an entry
\* is None every later entry is None.
C6_AbsentSuffix ==
    ipc \notin {"off", "pack", "unpack"} =>
        /\ Len(unpacked) = 17
        /\ \A k \in 1..16 : unpacked[k] = None => unpacked[k + 1] = None

\* C7: the header-field split of unwrap_item_info matches the reference
\* formula: type, balance and manufacturer are split into lib = x >> bits and
\* asset = x & ((1 << bits) - 1) with bits from item_header_sizes[is_weapon],
\* and every present part the same way with bits = 10 + is_weapon.
C7_HeaderSplit ==
    ipc \in {"wrap_info", "done"} =>
        LET hs == item_header_sizes[item.is_weapon + 1]
            pb == 10 + item.is_weapon
        IN /\ \A i \in 1..3 :
                  /\ info.header[i][1] = item.values[1 + i] \div 2^(hs[i])
                  /\ info.header[i][2] = item.values[1 + i] % 2^(hs[i])
           /\ Len(info.parts) = 11
           /\ \A n \in 1..11 :
                  IF item.values[6 + n] = None THEN info.parts[n] = NoPart
                  ELSE /\ info.parts[n][1] = item.values[6 + n] \div 2^pb
                       /\ info.parts[n][2] = item.values[6 + n] % 2^pb

C7_Witness ==
    /\ ipc = "wrap_info"
    /\ is_weapon = 1
    /\ \A i \in 1..3 : info.header[i][1] > 0 /\ info.header[i][2] > 0
    /\ info.parts[1] # NoPart
    /\ info.parts[1][1] > 0
    /\ info.parts[1][2] > 0
    /\ info.parts[11] = NoPart

\* C8: structured item round trip: for every raw item produced by wrap_item
\* whose six structural fields are present, unwrap_item_info does not exit and
\* wrap_item_info(unwrap_item_info(raw)) = raw; the is_weapon, key and field
\* list wrap_item_info rebuilds are those unwrap_item returned for raw.
C8_InfoRoundTrip ==
    PresentCount(values) >= 6 =>
        /\ ipc # "exit"
        /\ ipc = "done" =>
              /\ rewrapped = raw
              /\ info.is_weapon = item.is_weapon
              /\ info.key = item.key
              /\ InfoValues(info) = item.values

C8_Witness ==
    /\ ipc = "done"
    /\ is_weapon = 1
    /\ key = 305419896
    /\ PresentCount(values) = 8
    /\ info.parts[1][1] > 0
    /\ info.parts[3] = NoPart
    /\ rewrapped = raw

(***************************************************************************)
(* Edit pass of modify_save: _set_money, _unlock_features,                 *)
(* _fix_challenge_overflow on a PlayerDict.                                *)
(*                                                                         *)
(* A PlayerDict is a function from field numbers to sequences of           *)
(* occurrences [wire, kind, val]: Python's [wire_type, payload], with      *)
(* kind "bytes" for a bytes payload and "list" for a list of integers.     *)
(***************************************************************************)
\* util/protobuf.py write_varint
RECURSIVE write_varint(_)
write_varint(n) ==
    IF n < 128 THEN <<n>> ELSE <<(n % 128) + 128>> \o write_varint(n \div 128)

\* util/protobuf.py read_varint: the value at position p and the next position
RECURSIVE read_varint(_, _)
read_varint(b, p) ==
    IF b[p] < 128 THEN [val |-> b[p], pos |-> p + 1]
    ELSE LET r == read_varint(b, p + 1)
         IN [val |-> (b[p] - 128) + 128 * r.val, pos |-> r.pos]

\* _set_money lines 295-298: read_protobuf_value(b, 0) until the end of raw
RECURSIVE ReadValues(_, _)
ReadValues(b, p) ==
    IF p > Len(b) THEN <<>>
    ELSE LET r == read_varint(b, p) IN <<r.val>> \o ReadValues(b, r.pos)

\* util/protobuf.py write_protobuf on a list payload: the values packed
RECURSIVE write_packed(_)
write_packed(vs) == IF vs = <<>> THEN <<>> ELSE write_varint(vs[1]) \o write_packed(Tail(vs))

\* values[i] = v of Python (0-based): IndexError when the list is too short
SetAt(r, i, v) ==
    IF r.err # "" \/ v = None THEN r
    ELSE IF i + 1 > Len(r.values) THEN [r EXCEPT !.err = "IndexError"]
    ELSE [r EXCEPT !.values[i + 1] = v]

\* _set_money with Torgue Tokens written to values[3]
set_money_TorgueAt3(p, cfg) ==
    IF cfg.money = None /\ cfg.eridium = None /\ cfg.seraph = None /\ cfg.torgue = None
    THEN [err |-> "", player |-> p]
    ELSE IF 6 \notin DOMAIN p THEN [err |-> "KeyError", player |-> p]
    ELSE IF p[6][1].kind # "bytes" THEN [err |-> "TypeError", player |-> p]
    ELSE LET r0 == [err |-> "", values |-> ReadValues(p[6][1].val, 1)]
             r == SetAt(SetAt(SetAt(SetAt(r0, 0, cfg.money), 1, cfg.eridium),
                              2, cfg.seraph), 3, cfg.torgue)
         IN IF r.err # "" THEN [err |-> r.err, player |-> p]
            ELSE [err |-> "",
                  player |-> [p EXCEPT ![6][1] = [wire |-> 0, kind |-> "list", val |-> r.values]]]

\* BaseApp._set_money(player) under config cfg: the exception raised ("" when
\* it returns) and the PlayerDict afterwards
set_money(p, cfg) ==
    IF cfg.money = None /\ cfg.eridium = None /\ cfg.seraph = None /\ cfg.torgue = None
    THEN [err |-> "", player |-> p]
    ELSE IF 6 \notin DOMAIN p THEN [err |-> "KeyError", player |-> p]
    ELSE IF p[6][1].kind # "bytes" THEN [err |-> "TypeError", player |-> p]
    ELSE LET r0 == [err |-> "", values |-> ReadValues(p[6][1].val, 1)]
             r == SetAt(SetAt(SetAt(SetAt(r0, 0, cfg.money), 1, cfg.eridium),
                              2, cfg.seraph), 4, cfg.torgue)
         IN IF r.err # "" THEN [err |-> r.err, player |-> p]
            ELSE [err |-> "",
                  player |-> [p EXCEPT ![6][1] = [wire |-> 0, kind |-> "list", val |-> r.values]]]

\* b + b"\x01" without the test 1 not in b
AppendOne_Always(b) == b \o <<1>>

\* 1 in b, b + b"\x01"
AppendOne(b) == IF \E i \in 1..Len(b) : b[i] = 1 THEN b ELSE b \o <<1>>

\* p with p[f] = v, f a new key or not
DictSet(p, f, v) == [g \in (DOMAIN p) \cup {f} |-> IF g = f THEN v ELSE p[g]]

\* BaseApp._unlock_features(player)
unlock_features(p, cfg) ==
    IF cfg.unlock = {} THEN p
    ELSE IF "slaughterdome" \notin cfg.unlock THEN p
    ELSE LET unlocked == IF 23 \in DOMAIN p THEN p[23][1].val ELSE <<>>
             notifications == IF 24 \in DOMAIN p THEN p[24][1].val ELSE <<>>
         IN DictSet(DictSet(p, 23, <<[wire |-> 2, kind |-> "bytes", val |-> AppendOne(unlocked)]>>),
                    24, <<[wire |-> 2, kind |-> "bytes", val |-> AppendOne(notifications)]>>)

\* self.challenges: id -> Challenge, here its get_max()
challenges == [id \in {1, 3} |-> IF id = 1 THEN 1000 ELSE 2000]

\* Challenge.get_max
get_max(id) == challenges[id]

\* struct 'H' in the configured endianness
pack_u16(e, n) == IF e = ">" THEN <<n \div 256, n % 256>> ELSE <<n % 256, n \div 256>>

unpack_u16(e, b) == IF e = ">" THEN b[1] * 256 + b[2] ELSE b[2] * 256 + b[1]

\* the value of a word below 2^31
unpack_u32_value(e, b) ==
    LET w == unpack_u32(e, b)
    IN w[1] * 16777216 + w[2] * 65536 + w[3] * 256 + w[4]

\* challenges.py: one record, u16 id, u32 total_value, u32 previous_value
RECURSIVE WrapRecords(_, _)
WrapRecords(rs, e) ==
    IF rs = <<>> THEN <<>>
    ELSE pack_u16(e, rs[1].id) \o pack_u32(e, rs[1].total_value)
         \o pack_u32(e, rs[1].previous_value) \o WrapRecords(Tail(rs), e)

RECURSIVE WrapIds(_, _)
WrapIds(ids, e) == IF ids = <<>> THEN <<>> ELSE pack_u16(e, ids[1]) \o WrapIds(Tail(ids), e)

\* challenges.py wrap_challenges(data, endian): count and ids of the
\* dictionary slice, count and records; '_name' is dropped
wrap_challenges(d, e) ==
    pack_u16(e, Len(d.ids)) \o WrapIds(d.ids, e)
    \o pack_u16(e, Len(d.challenges)) \o WrapRecords(d.challenges, e)

\* challenges.py unwrap_challenges(data, challenges, endian); '_name' is the
\* id when the table knows it, None otherwise
unwrap_challenges(b, e) ==
    LET n == unpack_u16(e, SubSeq(b, 1, 2))
        base == 2 + 2 * n
        m == unpack_u16(e, SubSeq(b, base + 1, base + 2))
        rec(k) == base + 2 + 10 * (k - 1)
    IN [ids |-> [k \in 1..n |-> unpack_u16(e, SubSeq(b, 2 * k + 1, 2 * k + 2))],
        challenges |-> [k \in 1..m |->
            LET id == unpack_u16(e, SubSeq(b, rec(k) + 1, rec(k) + 2))
            IN [id |-> id,
                total_value |-> unpack_u32_value(e, SubSeq(b, rec(k) + 3, rec(k) + 6)),
                previous_value |-> unpack_u32_value(e, SubSeq(b, rec(k) + 7, rec(k) + 10)),
                _name |-> IF id \in DOMAIN challenges THEN id ELSE None]]]

\* _fix_challenge_overflow line 343
OverflowThreshold == 2000000000

\* _fix_challenge_overflow lines 341-345 with > for >=
FixRecord_Strict(c) ==
    IF c.id \in DOMAIN challenges /\ c.total_value > OverflowThreshold
    THEN [c EXCEPT !.total_value = get_max(c.id) + 1]
    ELSE c

\* _fix_challenge_overflow lines 341-345: one record of data2['challenges']
FixRecord(c) ==
    IF c.id \in DOMAIN challenges /\ c.total_value >= OverflowThreshold
    THEN [c EXCEPT !.total_value = get_max(c.id) + 1]
    ELSE c

\* BaseApp._fix_challenge_overflow(player) under config cfg and endianness e
fix_challenge_overflow(p, cfg, e) ==
    IF ~cfg.fix_challenge_overflow THEN [err |-> "", player |-> p]
    ELSE IF 15 \notin DOMAIN p THEN [err |-> "KeyError", player |-> p]
    ELSE LET data2 == unwrap_challenges(p[15][1].val, e)
             fixed == [data2 EXCEPT !.challenges =
                          [k \in 1..Len(data2.challenges) |-> FixRecord(data2.challenges[k])]]
         IN [err |-> "", player |-> [p EXCEPT ![15][1].val = wrap_challenges(fixed, e)]]

(***************************************************************************)
(* PlayerDicts and configurations the edit pass is run on.                 *)
(***************************************************************************)
Bytes(b) == [wire |-> 2, kind |-> "bytes", val |-> b]

Field6Choices == {"absent", "five", "short", "twice"}

Field6(c) ==
    CASE c = "five"  -> <<Bytes(write_packed(<<1000, 0, 0, 0, 0>>))>>
      [] c = "short" -> <<Bytes(write_packed(<<1, 200, 300>>))>>
      [] OTHER       -> <<Bytes(write_packed(<<1000, 200, 3, 70000, 5, 9>>)),
                          Bytes(write_packed(<<7, 8, 9, 10, 11>>))>>

Field15Choices == {"absent", "S3", "mixed"}

Record(id, total, previous) ==
    [id |-> id, total_value |-> total, previous_value |-> previous, _name |-> None]

Field15(c, e) ==
    IF c = "S3"
    THEN <<Bytes(wrap_challenges(
               [ids |-> <<1, 2, 3>>,
                challenges |-> <<Record(1, 2100000000, 7), Record(2, 5, 0),
                                 Record(3, 2000000000, 1)>>], e))>>
    ELSE <<Bytes(wrap_challenges(
               [ids |-> <<3, 4>>,
                challenges |-> <<Record(3, 1999999999, 2), Record(4, 2100000000, 3),
                                 Record(1, 2000000000, 4), Record(1, 300, 5)>>], e)),
           Bytes(<<9, 9>>)>>

UnlockChoices == {"absent", "clear", "set"}

MakePlayer(c6, c15, cu, e) ==
    LET p0 == [f \in {99} |-> <<[wire |-> 0, kind |-> "int", val |-> <<42>>]>>]
        p1 == IF c6 = "absent" THEN p0 ELSE DictSet(p0, 6, Field6(c6))
        p2 == IF c15 = "absent" THEN p1 ELSE DictSet(p1, 15, Field15(c15, e))
    IN CASE cu = "clear" -> DictSet(p2, 23, <<Bytes(<<0, 2>>), Bytes(<<5>>)>>)
         [] cu = "set"   -> DictSet(DictSet(p2, 23, <<Bytes(<<1>>)>>), 24, <<Bytes(<<2, 1, 3>>)>>)
         [] OTHER        -> p2

Configs ==
    [money : {None, 99999999}, eridium : {None, 0}, seraph : {None, 5},
     torgue : {None, 300}, unlock : {{}, {"slaughterdome"}, {"uvhm"}},
     fix_challenge_overflow : BOOLEAN]

\* a PlayerDict as read_protobuf returned it and a configuration; the
\* envelope and the item codec idle
InitEdit ==
    /\ endian \in {"<", ">"}
    /\ config \in Configs
    /\ \E c6 \in Field6Choices, c15 \in Field15Choices, cu \in UnlockChoices :
          playerIn = MakePlayer(c6, c15, cu, endian)
    /\ playerDict = playerIn
    /\ epc = "set_money"
    /\ eerror = ""
    /\ player = <<>>
    /\ tamper = NoTamper
    /\ file = <<>>
    /\ pc = "off"
    /\ data = <<>>
    /\ version = <<>>
    /\ crc = <<>>
    /\ size = <<>>
    /\ decoded = <<>>
    /\ result = <<>>
    /\ error = ""
    /\ lzoRan = FALSE
    /\ is_weapon = 0
    /\ values = <<>>
    /\ key = 0
    /\ packed = <<>>
    /\ unpacked = <<>>
    /\ raw = <<>>
    /\ item = <<>>
    /\ info = <<>>
    /\ rewrapped = <<>>
    /\ ipc = "off"
    /\ stored = <<>>
    /\ xplayer = <<>>
    /\ container = 0
    /\ field = 0
    /\ count = 0
    /\ skipped_count = 0
    /\ output = <<>>
    /\ xpc = "off"
    /\ args = <<>>
    /\ namespace = <<>>
    /\ parse_error = ""
    /\ apc = "off"
    /\ outpath = "absent"
    /\ answer = ""
    /\ decodes = FALSE
    /\ changed = FALSE
    /\ edited = FALSE
    /\ unlinked = FALSE
    /\ opened = FALSE
    /\ written = FALSE
    /\ rpc = "off"
    /\ rerror = ""

\* modify_save line 362: self._set_money(player)
SetMoney ==
    /\ epc = "set_money"
    /\ LET r == set_money(playerDict, config)
       IN /\ playerDict' = r.player
          /\ eerror' = r.err
          /\ epc' = IF r.err = "" THEN "unlock" ELSE "failed"
    /\ UNCHANGED <<config, playerIn>>
    /\ UNCHANGED <<envVars, itemVars, exportVars, argVars, runVars>>

\* modify_save line 363: self._unlock_features(player)
UnlockFeatures ==
    /\ epc = "unlock"
    /\ playerDict' = unlock_features(playerDict, config)
    /\ epc' = "fix"
    /\ UNCHANGED <<config, playerIn, eerror>>
    /\ UNCHANGED <<envVars, itemVars, exportVars, argVars, runVars>>

\* modify_save line 365: self._fix_challenge_overflow(player)
FixChallengeOverflow ==
    /\ epc = "fix"
    /\ LET r == fix_challenge_overflow(playerDict, config, endian)
       IN /\ playerDict' = r.player
          /\ eerror' = r.err
          /\ epc' = IF r.err = "" THEN "done" ELSE "failed"
    /\ UNCHANGED <<config, playerIn>>
    /\ UNCHANGED <<envVars, itemVars, exportVars, argVars, runVars>>

\* modify_save lines 362-365 as one function of the PlayerDict: the three
\* edits in order, stopping at the first exception
apply_edits(p, cfg, e) ==
    LET r == set_money(p, cfg)
    IN IF r.err # "" THEN r
       ELSE fix_challenge_overflow(unlock_features(r.player, cfg), cfg, e)

\* the edit pass once more, on the PlayerDict the first pass left
ApplyEditsAgain ==
    /\ epc = "done"
    /\ LET r == apply_edits(playerDict, config, endian)
       IN /\ playerDict' = r.player
          /\ eerror' = r.err
          /\ epc' = IF r.err = "" THEN "again" ELSE "again_failed"
    /\ UNCHANGED <<config, playerIn>>
    /\ UNCHANGED <<envVars, itemVars, exportVars, argVars, runVars>>

NextEdit ==
    \/ SetMoney
    \/ UnlockFeatures
    \/ FixChallengeOverflow
    \/ ApplyEditsAgain

SpecEdit == InitEdit /\ [][NextEdit]_vars

(***************************************************************************)
(* Properties of the edit pass.                                            *)
(***************************************************************************)
\* the currency list an occurrence of field 6 decodes to: a list payload is
\* written packed by write_protobuf
CurrencyList(occ) ==
    IF occ.kind = "list" THEN ReadValues(write_packed(occ.val), 1)
    ELSE ReadValues(occ.val, 1)

AnyCurrencySet ==
    config.money # None \/ config.eridium # None \/ config.seraph # None \/ config.torgue # None

\* the value position i (0-based) of the currency list must have after
\* _set_money, given its value before
CurrencyAfter(i, before) ==
    CASE i = 0 /\ config.money # None   -> config.money
      [] i = 1 /\ config.eridium # None -> config.eridium
      [] i = 2 /\ config.seraph # None  -> config.seraph
      [] i = 4 /\ config.torgue # None  -> config.torgue
      [] OTHER                          -> before

\* C9: currency edit and its frame.  When _set_money has returned: with none
\* of the four options set the player message is unchanged; otherwise the
\* list decoded from the first occurrence of field 6 has the configured
\* money, eridium, seraph, torgue at positions 0, 1, 2, 4 for the options
\* set, its other positions and its length are as before, and every other
\* occurrence and field is unchanged.  When _set_money raises, the player
\* message is unchanged.
C9_SetMoneyFrame ==
    /\ (epc = "unlock" /\ ~AnyCurrencySet) => playerDict = playerIn
    /\ (epc = "unlock" /\ AnyCurrencySet) =>
          /\ DOMAIN playerDict = DOMAIN playerIn
          /\ \A f \in DOMAIN playerIn \ {6} : playerDict[f] = playerIn[f]
          /\ Len(playerDict[6]) = Len(playerIn[6])
          /\ \A k \in 2..Len(playerIn[6]) : playerDict[6][k] = playerIn[6][k]
          /\ LET old == CurrencyList(playerIn[6][1])
                 new == CurrencyList(playerDict[6][1])
             IN /\ Len(new) = Len(old)
                /\ \A i \in 1..Len(old) : new[i] = CurrencyAfter(i - 1, old[i])
    /\ (epc = "failed" /\ eerror \in {"IndexError", "TypeError"}) => playerDict = playerIn

C9_Witness ==
    /\ epc = "unlock"
    /\ config.money = 99999999
    /\ config.eridium = None
    /\ config.torgue = 300
    /\ Len(playerIn[6]) = 2
    /\ CurrencyList(playerDict[6][1]) = <<99999999, 200, 3, 70000, 300, 9>>

\* the records of the challenge block in the first occurrence of field 15
ChallengeRecords(p) == unwrap_challenges(p[15][1].val, endian).challenges

\* C10: challenge-overflow repair.  With fix_challenge_overflow set, after
\* _fix_challenge_overflow every record of the block in field 15 whose id is
\* in the challenge table and whose total_value was >= 2,000,000,000 has
\* total_value = max(id) + 1, every other record is unchanged, and the number
\* and order of the records are as before; with the option not set field 15
\* is never touched.
C10_OverflowRepair ==
    /\ (epc = "done" /\ config.fix_challenge_overflow) =>
          LET old == ChallengeRecords(playerIn)
              new == ChallengeRecords(playerDict)
          IN /\ Len(new) = Len(old)
             /\ \A k \in 1..Len(old) :
                   IF old[k].id \in DOMAIN challenges /\ old[k].total_value >= 2000000000
                   THEN new[k] = [old[k] EXCEPT !.total_value = challenges[old[k].id] + 1]
                   ELSE new[k] = old[k]
             /\ unwrap_challenges(playerDict[15][1].val, endian).ids
                    = unwrap_challenges(playerIn[15][1].val, endian).ids
             /\ Len(playerDict[15]) = Len(playerIn[15])
             /\ \A k \in 2..Len(playerIn[15]) : playerDict[15][k] = playerIn[15][k]
    /\ (epc # "off" /\ ~config.fix_challenge_overflow) =>
          /\ (15 \in DOMAIN playerDict) = (15 \in DOMAIN playerIn)
          /\ 15 \in DOMAIN playerIn => playerDict[15] = playerIn[15]

C10_Witness ==
    /\ epc = "done"
    /\ config.fix_challenge_overflow
    /\ Len(playerIn[15]) = 2
    /\ ChallengeRecords(playerIn)[2].total_value = 2100000000
    /\ ChallengeRecords(playerDict)[2].total_value = 2100000000
    /\ ChallengeRecords(playerIn)[3].total_value = 2000000000
    /\ ChallengeRecords(playerDict)[3].total_value = 1001

\* the PlayerDict _unlock_features was called on
BeforeUnlock == set_money(playerIn, config).player

\* the payload of the first occurrence of field f, b'' when f is missing
FirstPayload(p, f) == IF f \in DOMAIN p THEN p[f][1].val ELSE <<>>

\* the number of bytes 0x01 in b
RECURSIVE CountOnes(_)
CountOnes(b) == IF b = <<>> THEN 0 ELSE (IF b[1] = 1 THEN 1 ELSE 0) + CountOnes(Tail(b))

\* C13: unlock flags.  With 'slaughterdome' in the unlock set, after
\* _unlock_features fields 23 and 24 are each one length-delimited occurrence
\* whose payload contains 0x01 and is the previous first-occurrence payload
\* (empty when the field was missing), with one 0x01 appended only when it
\* had none; every other field is unchanged.  With an empty unlock set or one
\* without 'slaughterdome' the PlayerDict is unchanged.
C13_UnlockFlags ==
    epc = "fix" =>
        LET pre == BeforeUnlock
        IN IF "slaughterdome" \in config.unlock
           THEN /\ DOMAIN playerDict = (DOMAIN pre) \cup {23, 24}
                /\ \A f \in {23, 24} :
                      LET old == FirstPayload(pre, f)
                          new == playerDict[f][1].val
                      IN /\ Len(playerDict[f]) = 1
                         /\ playerDict[f][1].wire = 2
                         /\ \E i \in 1..Len(new) : new[i] = 1
                         /\ IF \E i \in 1..Len(old) : old[i] = 1
                            THEN new = old
                            ELSE new = old \o <<1>>
                         /\ CountOnes(new) = IF CountOnes(old) = 0 THEN 1 ELSE CountOnes(old)
                /\ \A f \in (DOMAIN pre) \ {23, 24} : playerDict[f] = pre[f]
           ELSE playerDict = pre

\* field 23 had two occurrences without 0x01 and field 24 was missing
C13_Witness ==
    /\ epc = "fix"
    /\ "slaughterdome" \in config.unlock
    /\ 23 \in DOMAIN playerIn
    /\ Len(playerIn[23]) = 2
    /\ 24 \notin DOMAIN playerIn
    /\ playerDict[23] = <<Bytes(<<0, 2, 1>>)>>
    /\ playerDict[24] = <<Bytes(<<1>>)>>
    /\ 6 \in DOMAIN playerDict

\* C11: idempotent edit.  After an edit pass that completed, the same pass
\* (_set_money, _unlock_features, _fix_challenge_overflow) applied again with
\* the same configuration completes and leaves the PlayerDict the first pass
\* produced.
C11_IdempotentEdit ==
    epc \in {"again", "again_failed"} =>
        /\ epc = "again"
        /\ playerDict = apply_edits(playerIn, config, endian).player

\* what does hold: the second pass completes and changes nothing exactly when
\* no currency option is set; with one set it stops in _set_money on the list
\* the first pass stored in player[6][0]
C11_SecondPass ==
    /\ (epc = "again" /\ ~AnyCurrencySet) =>
           playerDict = apply_edits(playerIn, config, endian).player
    /\ (epc \in {"again", "again_failed"} /\ AnyCurrencySet) =>
           (epc = "again_failed" /\ eerror = "TypeError")
    /\ epc = "again_failed" => AnyCurrencySet

(***************************************************************************)
(* export_items: the item listing of containers 41, 53 and 54.             *)
(***************************************************************************)
\* most items the bank of the modelled saves holds
MaxItems == 3

\* base64.b64encode: the alphabet positions of the output, 64 for '='
b64encode(b) ==
    LET n == Len(b)
        at(i) == IF i <= n THEN b[i] ELSE 0
        group(g) ==
            LET i == 3 * g - 2
            IN <<at(i) \div 4,
                 (at(i) % 4) * 16 + at(i + 1) \div 16,
                 IF i + 1 > n THEN 64 ELSE (at(i + 1) % 16) * 4 + at(i + 2) \div 64,
                 IF i + 2 > n THEN 64 ELSE at(i + 2) % 64>>
    IN [k \in 1..(4 * ((n + 2) \div 3)) |-> group(((k - 1) \div 4) + 1)[((k - 1) % 4) + 1]]

\* util/common.py replace_raw_item_key(data, key): the same packed item and
\* version byte under a new key
replace_raw_item_key(d, k) ==
    LET old_key == unpack_i32(SubSeq(d, 2, 5))
        unrolled == rotate_data_right(xor_data(SliceFrom(d, 5), old_key \div 32), old_key % 32)
        header == <<d[1]>> \o pack_i32(k)
    IN header \o create_body(SliceFrom(unrolled, 2), header, k)

\* the (41, "Bank"), (53, "Items"), (54, "Weapons") of export_items
Containers == <<41, 53, 54>>

ContainerNames == <<"Bank", "Items", "Weapons">>

\* self.item_prefix of the Borderlands 2 application
item_prefix == "BL2"

\* print(f'; {name}', file=output)
HeaderLine(name) == [kind |-> "header", text |-> name, code |-> <<>>]

\* print(f'{self.item_prefix}({printable})', file=output)
CodeLine(r) == [kind |-> "code", text |-> item_prefix, code |-> b64encode(r)]

\* export_items line 398 with the test of the remaining fields left out
IsPseudoItem_SetOnly(it) == it[1] = 255

\* export_items line 398: item[0] == 255 and all([val == 0 for val in item[1:]])
IsPseudoItem(it) == it[1] = 255 /\ \A k \in 2..Len(it) : it[k] = 0

(***************************************************************************)
(* The items the modelled saves hold.                                      *)
(***************************************************************************)
StoredKinds == {"real", "weapon", "pseudo", "set255", "short255"}

StoredItem(kind) ==
    CASE kind = "real"   -> [is_weapon |-> 0, values |-> ItemValues(0, 17, "high", FALSE), key |-> 45]
      [] kind = "weapon" -> [is_weapon |-> 1, values |-> ItemValues(1, 17, "one", FALSE),
                             key |-> 305419896]
      [] kind = "pseudo" -> [is_weapon |-> 0, values |-> [k \in 1..17 |-> IF k = 1 THEN 255 ELSE 0],
                             key |-> -1]
      [] kind = "set255" -> [is_weapon |-> 1,
                             values |-> [k \in 1..17 |-> IF k = 1 THEN 255 ELSE IF k = 17 THEN 1 ELSE 0],
                             key |-> 0]
      [] OTHER           -> [is_weapon |-> 0, values |-> Pad17(<<255, 0, 0, 0, 0, 0>>), key |-> 45]

ContentsUpTo(n) == UNION {[1..k -> StoredKinds] : k \in 0..n}

SideContents == {<<"weapon">>, <<"pseudo", "real">>}

\* a player whose containers hold wrapped items; the other parts idle
InitExport ==
    /\ \E present \in SUBSET {41, 53, 54}, bank \in ContentsUpTo(MaxItems),
          items \in SideContents, weapons \in SideContents :
          stored = [i \in present |->
                       LET kinds == CASE i = 41 -> bank [] i = 53 -> items [] OTHER -> weapons
                       IN [k \in 1..Len(kinds) |-> StoredItem(kinds[k])]]
    /\ xplayer = [i \in DOMAIN stored |->
                     [k \in 1..Len(stored[i]) |->
                         wrap_item(stored[i][k].is_weapon, stored[i][k].values, stored[i][k].key)]]
    /\ container = 0
    /\ field = 0
    /\ count = 0
    /\ skipped_count = 0
    /\ output = <<>>
    /\ xpc = "container"
    /\ endian = "<"
    /\ player = <<>>
    /\ tamper = NoTamper
    /\ file = <<>>
    /\ pc = "off"
    /\ data = <<>>
    /\ version = <<>>
    /\ crc = <<>>
    /\ size = <<>>
    /\ decoded = <<>>
    /\ result = <<>>
    /\ error = ""
    /\ lzoRan = FALSE
    /\ is_weapon = 0
    /\ values = <<>>
    /\ key = 0
    /\ packed = <<>>
    /\ unpacked = <<>>
    /\ raw = <<>>
    /\ item = <<>>
    /\ info = <<>>
    /\ rewrapped = <<>>
    /\ ipc = "off"
    /\ config = <<>>
    /\ playerIn = <<>>
    /\ playerDict = <<>>
    /\ epc = "off"
    /\ eerror = ""
    /\ args = <<>>
    /\ namespace = <<>>
    /\ parse_error = ""
    /\ apc = "off"
    /\ outpath = "absent"
    /\ answer = ""
    /\ decodes = FALSE
    /\ changed = FALSE
    /\ edited = FALSE
    /\ unlinked = FALSE
    /\ opened = FALSE
    /\ written = FALSE
    /\ rpc = "off"
    /\ rerror = ""

\* export_items lines 377-382: the next (i, name); a missing container is
\* passed over, a present one gets its header line
ExportContainer ==
    /\ xpc = "container"
    /\ container < Len(Containers)
    /\ container' = container + 1
    /\ IF Containers[container + 1] \in DOMAIN xplayer
       THEN /\ output' = Append(output, HeaderLine(ContainerNames[container + 1]))
            /\ xpc' = "field"
       ELSE UNCHANGED <<output, xpc>>
    /\ count' = 0
    /\ field' = 0
    /\ UNCHANGED <<stored, xplayer, skipped_count>>
    /\ UNCHANGED <<envVars, itemVars, editVars, argVars, runVars>>

\* export_items lines 383-406: one field of content
ExportField ==
    /\ xpc = "field"
    /\ field < Len(xplayer[Containers[container]])
    /\ field' = field + 1
    /\ LET r == xplayer[Containers[container]][field + 1]
           u == unwrap_item(r)
       IN IF IsPseudoItem(u.values)
          THEN /\ skipped_count' = skipped_count + 1
               /\ UNCHANGED <<count, output>>
          ELSE /\ count' = count + 1
               /\ output' = Append(output, CodeLine(replace_raw_item_key(r, 0)))
               /\ UNCHANGED skipped_count
    /\ UNCHANGED <<stored, xplayer, container, xpc>>
    /\ UNCHANGED <<envVars, itemVars, editVars, argVars, runVars>>

\* export_items line 407: the content is exhausted
ExportContainerDone ==
    /\ xpc = "field"
    /\ field = Len(xplayer[Containers[container]])
    /\ xpc' = "container"
    /\ UNCHANGED <<stored, xplayer, container, field, count, skipped_count, output>>
    /\ UNCHANGED <<envVars, itemVars, editVars, argVars, runVars>>

\* export_items returns after the last container
ExportReturn ==
    /\ xpc = "container"
    /\ container = Len(Containers)
    /\ xpc' = "done"
    /\ UNCHANGED <<stored, xplayer, container, field, count, skipped_count, output>>
    /\ UNCHANGED <<envVars, itemVars, editVars, argVars, runVars>>

NextExport ==
    \/ ExportContainer
    \/ ExportField
    \/ ExportContainerDone
    \/ ExportReturn

SpecExport == InitExport /\ [][NextExport]_vars

(***************************************************************************)
(* Properties of export_items.                                             *)
(***************************************************************************)
\* a stored item with set == 255 and every remaining field zero
StoredPseudo(s) == s.values[1] = 255 /\ \A k \in 2..Len(s.values) : s.values[k] = 0

\* the codes of the stored items that are not pseudo-items, in order
RECURSIVE ExpectedCodes(_)
ExpectedCodes(ss) ==
    IF ss = <<>> THEN <<>>
    ELSE (IF StoredPseudo(ss[1]) THEN <<>>
          ELSE <<CodeLine(wrap_item(ss[1].is_weapon, ss[1].values, 0))>>)
         \o ExpectedCodes(Tail(ss))

RECURSIVE PseudoCount(_)
PseudoCount(ss) ==
    IF ss = <<>> THEN 0
    ELSE (IF StoredPseudo(ss[1]) THEN 1 ELSE 0) + PseudoCount(Tail(ss))

StoredIn(i) == IF i \in DOMAIN stored THEN stored[i] ELSE <<>>

ExpectedListing(i, name) ==
    IF i \in DOMAIN stored THEN <<HeaderLine(name)>> \o ExpectedCodes(stored[i]) ELSE <<>>

\* C12: item export skips exactly the pseudo-items.  export_items visits
\* containers 41 (Bank), 53 (Items), 54 (Weapons) in that order and prints,
\* for each present container, in container order, one code for every item
\* that is not a pseudo-item (set == 255, every remaining field zero) and none
\* for a pseudo-item; skipped_count is the number of pseudo-items.
C12_ExportSkipsPseudo ==
    /\ xpc = "done" =>
          /\ output = ExpectedListing(41, "Bank") \o ExpectedListing(53, "Items")
                         \o ExpectedListing(54, "Weapons")
          /\ skipped_count = PseudoCount(StoredIn(41)) + PseudoCount(StoredIn(53))
                                + PseudoCount(StoredIn(54))
    /\ xpc = "field" =>
          count + skipped_count >= field

\* spec scenario S6: a bank of two real items and a pseudo-item gives two
\* codes; the other containers are listed after it
C12_Witness ==
    /\ xpc = "done"
    /\ DOMAIN stored = {41, 54}
    /\ stored[41] = <<StoredItem("real"), StoredItem("pseudo"), StoredItem("weapon")>>
    /\ stored[54] = <<StoredItem("pseudo"), StoredItem("real")>>
    /\ skipped_count = 2
    /\ Len(output) = 5
    /\ output[1] = HeaderLine("Bank")
    /\ output[2].kind = "code"
    /\ output[3].kind = "code"
    /\ output[4] = HeaderLine("Weapons")

(***************************************************************************)
(* config.parse_args: the argument list to a Config, or a parser error.    *)
(***************************************************************************)
\* longest argument list handed to parse_args
MaxArgs == 4

\* None as the value of config.output_filename
NoFile == "<None>"

\* choices of -o/--output
OutputChoices == {"savegame", "decoded", "decodedjson", "json", "items", "none"}

\* the option strings among the modelled arguments: -o takes a value, -f none
OptionStrings == {"-o", "-f"}

\* class Config: the attributes the namespace starts with
ConfigDefaults ==
    [output |-> "savegame", force |-> FALSE, input_filename |-> "-", output_filename |-> "-"]

\* ArgumentParser.parse_args, one argument string at a time.  The first run
\* of positional strings fills input_filename and, when a second string
\* follows directly, output_filename (None otherwise); positional strings
\* after that run are left over.
RECURSIVE ArgScan(_, _, _)
ArgScan(a, i, st) ==
    IF st.err # "" \/ i > Len(a) THEN st
    ELSE IF a[i] = "-o"
    THEN IF i = Len(a) \/ a[i + 1] \in OptionStrings
         THEN [st EXCEPT !.err = "argument -o/--output: expected one argument"]
         ELSE IF a[i + 1] \notin OutputChoices
         THEN [st EXCEPT !.err = "argument -o/--output: invalid choice"]
         ELSE ArgScan(a, i + 2, [st EXCEPT !.ns.output = a[i + 1]])
    ELSE IF a[i] = "-f"
    THEN ArgScan(a, i + 1, [st EXCEPT !.ns.force = TRUE])
    ELSE IF st.seen
    THEN ArgScan(a, i + 1, [st EXCEPT !.extras = @ + 1])
    ELSE IF i < Len(a) /\ a[i + 1] \notin OptionStrings
    THEN ArgScan(a, i + 2, [st EXCEPT !.seen = TRUE, !.ns.input_filename = a[i],
                                      !.ns.output_filename = a[i + 1]])
    ELSE ArgScan(a, i + 1, [st EXCEPT !.seen = TRUE, !.ns.input_filename = a[i],
                                      !.ns.output_filename = NoFile])

\* parser.parse_args(args, config), line 190
argparse_parse_args(a, config0) ==
    LET st == ArgScan(a, 1, [ns |-> config0, seen |-> FALSE, extras |-> 0, err |-> ""])
    IN IF st.err # "" THEN [err |-> st.err, ns |-> st.ns]
       ELSE IF ~st.seen
       THEN [err |-> "the following arguments are required: input_filename", ns |-> st.ns]
       ELSE IF st.extras > 0 THEN [err |-> "unrecognized arguments", ns |-> st.ns]
       ELSE [err |-> "", ns |-> st.ns]

\* Config.finish lines 54-59; two relative names are the same file exactly
\* when they are equal
finish(ns) ==
    IF /\ ns.output_filename # NoFile
       /\ ns.input_filename # "-"
       /\ ns.input_filename = ns.output_filename
    THEN [err |-> "input_filename and output_filename cannot be the same file", ns |-> ns]
    ELSE [err |-> "", ns |-> ns]

\* parse_args lines 196-212 without line 207
sanity_check_NoRewrite(ns) ==
    IF ns.output_filename = NoFile
    THEN IF ns.output \notin {"savegame", "none"}
         THEN [err |-> "No output_filename was specified, but output type was specified", ns |-> ns]
         ELSE [err |-> "", ns |-> ns]
    ELSE IF ns.output = "none"
         THEN [err |-> "Output filename specified but with none output", ns |-> ns]
         ELSE [err |-> "", ns |-> ns]

\* parse_args lines 196-212: output type against output_filename
sanity_check(ns) ==
    IF ns.output_filename = NoFile
    THEN IF ns.output \notin {"savegame", "none"}
         THEN [err |-> "No output_filename was specified, but output type was specified", ns |-> ns]
         ELSE [err |-> "", ns |-> [ns EXCEPT !.output = "none"]]
    ELSE IF ns.output = "none"
         THEN [err |-> "Output filename specified but with none output", ns |-> ns]
         ELSE [err |-> "", ns |-> ns]

\* parse_args(args=a, ...): the parser error ("" when it returns) and the config
parse_args(a) ==
    LET p == argparse_parse_args(a, ConfigDefaults)
        f == finish(p.ns)
    IN IF p.err # "" THEN p
       ELSE IF f.err # "" THEN f
       ELSE sanity_check(f.ns)

ArgTokens == {"-o", "-f", "savegame", "json", "none", "in.sav", "out.sav", "-"}

ArgLists == UNION {[1..n -> ArgTokens] : n \in 0..MaxArgs}

\* an argument list and config = Config(); the other parts idle
InitArgs ==
    /\ args \in ArgLists
    /\ namespace = ConfigDefaults
    /\ parse_error = ""
    /\ apc = "parse"
    /\ outpath = "absent"
    /\ answer = ""
    /\ decodes = FALSE
    /\ changed = FALSE
    /\ edited = FALSE
    /\ unlinked = FALSE
    /\ opened = FALSE
    /\ written = FALSE
    /\ rpc = "off"
    /\ rerror = ""
    /\ stored = <<>>
    /\ xplayer = <<>>
    /\ container = 0
    /\ field = 0
    /\ count = 0
    /\ skipped_count = 0
    /\ output = <<>>
    /\ xpc = "off"
    /\ endian = "<"
    /\ player = <<>>
    /\ tamper = NoTamper
    /\ file = <<>>
    /\ pc = "off"
    /\ data = <<>>
    /\ version = <<>>
    /\ crc = <<>>
    /\ size = <<>>
    /\ decoded = <<>>
    /\ result = <<>>
    /\ error = ""
    /\ lzoRan = FALSE
    /\ is_weapon = 0
    /\ values = <<>>
    /\ key = 0
    /\ packed = <<>>
    /\ unpacked = <<>>
    /\ raw = <<>>
    /\ item = <<>>
    /\ info = <<>>
    /\ rewrapped = <<>>
    /\ ipc = "off"
    /\ config = <<>>
    /\ playerIn = <<>>
    /\ playerDict = <<>>
    /\ epc = "off"
    /\ eerror = ""

\* parse_args line 190: parser.parse_args(args, config)
ParseArgs ==
    /\ apc = "parse"
    /\ LET r == argparse_parse_args(args, namespace)
       IN /\ namespace' = r.ns
          /\ parse_error' = r.err
          /\ apc' = IF r.err = "" THEN "finish" ELSE "error"
    /\ UNCHANGED args
    /\ UNCHANGED <<envVars, itemVars, editVars, exportVars, runVars>>

\* parse_args line 193: config.finish(parser=parser)
Finish ==
    /\ apc = "finish"
    /\ LET r == finish(namespace)
       IN /\ namespace' = r.ns
          /\ parse_error' = r.err
          /\ apc' = IF r.err = "" THEN "check" ELSE "error"
    /\ UNCHANGED args
    /\ UNCHANGED <<envVars, itemVars, editVars, exportVars, runVars>>

\* parse_args lines 196-214: the sanity check, then return config
CheckOutput ==
    /\ apc = "check"
    /\ LET r == sanity_check(namespace)
       IN /\ namespace' = r.ns
          /\ parse_error' = r.err
          /\ apc' = IF r.err = "" THEN "returned" ELSE "error"
    /\ UNCHANGED args
    /\ UNCHANGED <<envVars, itemVars, editVars, exportVars, runVars>>

NextArgs ==
    \/ ParseArgs
    \/ Finish
    \/ CheckOutput

SpecArgs == InitArgs /\ [][NextArgs]_vars

(***************************************************************************)
(* Properties of parse_args.                                               *)
(***************************************************************************)
\* the namespace as parser.parse_args and config.finish left it
Parsed == argparse_parse_args(args, ConfigDefaults)

PassedFinish == Parsed.err = "" /\ finish(Parsed.ns).err = ""

\* C14: output type and output file agree.  Whenever parse_args returns a
\* config, config.output == 'none' exactly when config.output_filename is
\* None.  A missing output filename with an output type other than
\* 'savegame' and 'none' is rejected, a missing one with 'savegame' makes the
\* output 'none', and a filename given with output 'none' is rejected.
C14_OutputConsistent ==
    /\ apc = "returned" =>
          /\ (namespace.output = "none") <=> (namespace.output_filename = NoFile)
          /\ namespace.output \in OutputChoices
          /\ parse_error = ""
    /\ (apc \in {"returned", "error"} /\ PassedFinish) =>
          LET p == Parsed.ns
          IN /\ (p.output_filename = NoFile /\ p.output \notin {"savegame", "none"}) =>
                   (apc = "error" /\ parse_error # "")
             /\ (p.output_filename = NoFile /\ p.output = "savegame") =>
                   (apc = "returned" /\ namespace = [p EXCEPT !.output = "none"])
             /\ (p.output_filename # NoFile /\ p.output = "none") =>
                   (apc = "error" /\ parse_error # "")
             /\ (p.output_filename # NoFile /\ p.output # "none") =>
                   (apc = "returned" /\ namespace = p)

\* -o savegame with no output filename: returned with output 'none'
C14_Witness ==
    /\ apc = "returned"
    /\ args = <<"-o", "savegame", "in.sav">>
    /\ namespace.output = "none"
    /\ namespace.output_filename = NoFile
    /\ namespace.input_filename = "in.sav"

(***************************************************************************)
(* BaseApp.run and _prepare_output_file.                                   *)
(***************************************************************************)
\* the configs parse_args returns for the modelled argument lists
RunConfigs == {parse_args(a).ns : a \in {b \in ArgLists : parse_args(b).err = ""}}

\* a str as its characters
Answers == {<<"y", "\n">>, <<"Y", "e", "s", "\n">>, <<"n", "\n">>, <<"\n">>, <<>>}

\* str.lower on one character of the modelled answers
lower(c) == IF c = "Y" THEN "y" ELSE c

\* _prepare_output_file line 476 with any answer taken for a yes
answered_yes_Any(a) == TRUE

\* _prepare_output_file line 476: answer[0].lower() == 'y'
answered_yes(a) == lower(a[1]) = "y"

\* a config parse_args returned, the thing the output filename names, what
\* the input and the user will do; the other parts idle
InitRun ==
    /\ namespace \in RunConfigs
    /\ args = <<>>
    /\ parse_error = ""
    /\ apc = "returned"
    /\ outpath \in IF namespace.output_filename \in {NoFile, "-"}
                   THEN {"absent"} ELSE {"absent", "file", "dir"}
    /\ answer \in Answers
    /\ decodes \in BOOLEAN
    /\ changed \in BOOLEAN
    /\ edited = FALSE
    /\ unlinked = FALSE
    /\ opened = FALSE
    /\ written = FALSE
    /\ rpc = "read"
    /\ rerror = ""
    /\ stored = <<>>
    /\ xplayer = <<>>
    /\ container = 0
    /\ field = 0
    /\ count = 0
    /\ skipped_count = 0
    /\ output = <<>>
    /\ xpc = "off"
    /\ endian = "<"
    /\ player = <<>>
    /\ tamper = NoTamper
    /\ file = <<>>
    /\ pc = "off"
    /\ data = <<>>
    /\ version = <<>>
    /\ crc = <<>>
    /\ size = <<>>
    /\ decoded = <<>>
    /\ result = <<>>
    /\ error = ""
    /\ lzoRan = FALSE
    /\ is_weapon = 0
    /\ values = <<>>
    /\ key = 0
    /\ packed = <<>>
    /\ unpacked = <<>>
    /\ raw = <<>>
    /\ item = <<>>
    /\ info = <<>>
    /\ rewrapped = <<>>
    /\ ipc = "off"
    /\ config = <<>>
    /\ playerIn = <<>>
    /\ playerDict = <<>>
    /\ epc = "off"
    /\ eerror = ""

\* run lines 502-505: _read_input_file, _convert_json
RunRead ==
    /\ rpc = "read"
    /\ rpc' = "modify"
    /\ UNCHANGED <<outpath, answer, decodes, changed, edited, unlinked, opened, written, rerror>>
    /\ UNCHANGED <<envVars, itemVars, editVars, exportVars, argVars>>

\* run line 508: new_data = self.modify_save(save_data); unwrap_player_data
\* raises BorderlandsError on an input that does not decode
RunModify ==
    /\ rpc = "modify"
    /\ IF decodes
       THEN rpc' = "show" /\ UNCHANGED rerror
       ELSE rpc' = "raised" /\ rerror' = "BorderlandsError"
    /\ UNCHANGED <<outpath, answer, decodes, changed, edited, unlinked, opened, written>>
    /\ UNCHANGED <<envVars, itemVars, editVars, exportVars, argVars>>

\* run line 510: self.show_save_info(new_data)
RunShow ==
    /\ rpc = "show"
    /\ edited' = TRUE
    /\ rpc' = "output"
    /\ UNCHANGED <<outpath, answer, decodes, changed, unlinked, opened, written, rerror>>
    /\ UNCHANGED <<envVars, itemVars, editVars, exportVars, argVars>>

\* run lines 513-518: no output file
RunNoOutput ==
    /\ rpc = "output"
    /\ namespace.output_filename = NoFile
    /\ IF changed
       THEN rpc' = "exit" /\ rerror' = "Changes were made but no output file specified"
       ELSE rpc' = "returned" /\ UNCHANGED rerror
    /\ UNCHANGED <<outpath, answer, decodes, changed, edited, unlinked, opened, written>>
    /\ UNCHANGED <<envVars, itemVars, editVars, exportVars, argVars>>

\* run line 521, _prepare_output_file lines 450-472 and 484-491: up to the
\* prompt, or through open(outfile, mode)
RunPrepare ==
    /\ rpc = "output"
    /\ namespace.output_filename # NoFile
    /\ IF namespace.output_filename = "-"
       THEN rpc' = "write" /\ UNCHANGED <<unlinked, opened, rerror>>
       ELSE IF outpath = "dir"
       THEN /\ rpc' = "raised"
            /\ rerror' = "Output file is an existing directory"
            /\ UNCHANGED <<unlinked, opened>>
       ELSE IF outpath = "file"
       THEN IF namespace.force
            THEN /\ unlinked' = TRUE
                 /\ opened' = TRUE
                 /\ rpc' = "write"
                 /\ UNCHANGED rerror
            ELSE IF namespace.input_filename = "-"
            THEN /\ rpc' = "raised"
                 /\ rerror' = "Output filename exists and --force not specified, aborting"
                 /\ UNCHANGED <<unlinked, opened>>
            ELSE /\ rpc' = "prompt"
                 /\ UNCHANGED <<unlinked, opened, rerror>>
       ELSE /\ opened' = TRUE
            /\ rpc' = "write"
            /\ UNCHANGED <<unlinked, rerror>>
    /\ UNCHANGED <<outpath, answer, decodes, changed, edited, written>>
    /\ UNCHANGED <<envVars, itemVars, editVars, exportVars, argVars>>

\* _prepare_output_file lines 473-491: the answer to 'Continue and
\* overwrite? [y|N] '; answer[0] of an empty line raises IndexError
RunPrompt ==
    /\ rpc = "prompt"
    /\ IF answer = <<>>
       THEN /\ rpc' = "raised"
            /\ rerror' = "IndexError"
            /\ UNCHANGED <<unlinked, opened>>
       ELSE IF answered_yes(answer)
       THEN /\ unlinked' = TRUE
            /\ opened' = TRUE
            /\ rpc' = "write"
            /\ UNCHANGED rerror
       ELSE /\ rpc' = "returned"
            /\ UNCHANGED <<unlinked, opened, rerror>>
    /\ UNCHANGED <<outpath, answer, decodes, changed, edited, written>>
    /\ UNCHANGED <<envVars, itemVars, editVars, exportVars, argVars>>

\* run lines 524-541: the output in the configured format
RunWrite ==
    /\ rpc = "write"
    /\ written' = TRUE
    /\ rpc' = "close"
    /\ UNCHANGED <<outpath, answer, decodes, changed, edited, unlinked, opened, rerror>>
    /\ UNCHANGED <<envVars, itemVars, editVars, exportVars, argVars>>

\* run lines 543-546: close and 'Done'
RunClose ==
    /\ rpc = "close"
    /\ rpc' = "done"
    /\ UNCHANGED <<outpath, answer, decodes, changed, edited, unlinked, opened, written, rerror>>
    /\ UNCHANGED <<envVars, itemVars, editVars, exportVars, argVars>>

NextRun ==
    \/ RunRead
    \/ RunModify
    \/ RunShow
    \/ RunNoOutput
    \/ RunPrepare
    \/ RunPrompt
    \/ RunWrite
    \/ RunClose

SpecRun == InitRun /\ [][NextRun]_vars

(***************************************************************************)
(* Properties of run.                                                      *)
(***************************************************************************)
\* the output file was removed, opened, or something was written
Touched == unlinked \/ opened \/ written

\* the user was asked and the reply starts with y or Y
SaidYes == namespace.input_filename # "-" /\ answer # <<>> /\ lower(answer[1]) = "y"

RunEnded == rpc \in {"done", "returned", "raised", "exit"}

\* C15: output file protection in run.  A file that exists at the output
\* path is removed or opened for writing only after modify_save and
\* show_save_info have returned, and only with --force set or a 'y' reply to
\* the overwrite prompt.  When decoding fails, the output path is a
\* directory, the input is stdin without --force, or the user declines, the
\* file is left as it was and nothing is written.
C15_OutputProtected ==
    /\ (outpath = "file" /\ Touched) => (edited /\ (namespace.force \/ SaidYes))
    /\ ~decodes => (~Touched /\ (RunEnded => rpc = "raised"))
    /\ outpath = "dir" => (~Touched /\ (RunEnded => rpc = "raised"))
    /\ (outpath = "file" /\ namespace.input_filename = "-" /\ ~namespace.force) =>
          (~Touched /\ (RunEnded => rpc = "raised"))
    /\ (outpath = "file" /\ ~namespace.force /\ ~SaidYes) =>
          (~Touched /\ (RunEnded => rpc \in {"raised", "returned"}))
    /\ unlinked => outpath = "file"
    /\ written => (edited /\ (opened \/ namespace.output_filename = "-"))

\* the existing file replaced after the user said Yes
C15_Witness ==
    /\ rpc = "done"
    /\ outpath = "file"
    /\ ~namespace.force
    /\ answer = <<"Y", "e", "s", "\n">>
    /\ namespace.input_filename = "in.sav"
    /\ unlinked
    /\ opened
    /\ written

(***************************************************************************)
(* The parts together: a run exercises one of them.                        *)
(***************************************************************************)
Init == InitEnvelope \/ InitItem \/ InitEdit \/ InitExport \/ InitArgs \/ InitRun

Next == NextEnvelope \/ NextItem \/ NextEdit \/ NextExport \/ NextArgs \/ NextRun

Spec == Init /\ [][Next]_vars

====
